---- MODULE Spec2Model ----
(***************************************************************************)
(* Model of src/nvfuser/bias_add_ln_bf16.py: the bias-add + residual-add + *)
(* layer-norm + FP8 scale/amax operator in its four adapters, the          *)
(* dispatcher bias_add_ln, and the benchmark driver main.                  *)
(*                                                                         *)
(* Tensors hold exact numbers.  A number is c*sqrt(m) + b with c, b        *)
(* rational and m a square-free positive integer, which is closed under    *)
(* every operation the operator performs on its (integer) inputs: the only *)
(* irrational step is the one rsqrt per row.                               *)
(***************************************************************************)
EXTENDS Integers, Sequences, FiniteSets, TLC

\* ------------------------------------------------------------------ bounds
\* Feature width w_shape[-1] of the modelled inputs.
Cols == 2
\* Largest number of rows product(x.shape[:-1]) of the modelled inputs.
MaxRows == 2
\* Largest magnitude of the integer patterns the inputs are built from.
MaxVal == 1
\* Iteration counts of the driver (warmup_iters = 10, main_iters = 1000 in
\* the source, lines 319-320), capped.
MaxWarmup == 2
MaxMain == 2

\* ------------------------------------------------------- program constants
FP8_TENSOR_INDEX == 0

\* ------------------------------------------------------------ exact numbers
Abs(i) == IF i < 0 THEN -i ELSE i

RECURSIVE Gcd(_, _)
Gcd(a, b) == IF b = 0 THEN a ELSE Gcd(b, a % b)

\* Rationals <<n, d>>, d > 0, in lowest terms.
Reduce(n, d, g) == <<n \div g, d \div g>>
Rat(n, d) == Reduce(IF d < 0 THEN -n ELSE n, Abs(d), Gcd(Abs(n), Abs(d)))
RInt(i) == <<i, 1>>
\* over the least common denominator; g is the gcd of the denominators
RAddOver(r, s, g) == Rat(r[1] * (s[2] \div g) + s[1] * (r[2] \div g), (r[2] \div g) * s[2])
RAdd(r, s) == RAddOver(r, s, Gcd(r[2], s[2]))
RNeg(r) == <<-r[1], r[2]>>
RSub(r, s) == RAdd(r, RNeg(s))
\* common factors g1, g2 are cancelled crosswise before multiplying
RMulBy(r, s, g1, g2) == Rat((r[1] \div g1) * (s[1] \div g2), (r[2] \div g2) * (s[2] \div g1))
RMul(r, s) == RMulBy(r, s, Gcd(Abs(r[1]), s[2]), Gcd(Abs(s[1]), r[2]))
RDiv(r, s) == Rat(r[1] * s[2], r[2] * s[1])
RLt(r, s) == RSub(r, s)[1] < 0
RSign(r) == IF r[1] > 0 THEN 1 ELSE IF r[1] < 0 THEN -1 ELSE 0

\* Largest s with s*s dividing n (n >= 1).
SquarePart(n) ==
    CHOOSE s \in 1..n :
        /\ n % (s * s) = 0
        /\ \A t \in (s + 1)..n : t * t > n \/ n % (t * t) # 0

\* Numbers c*sqrt(m) + b; canonical: c = 0 iff m = 1.
Num(c, m, b) ==
    IF m = 1 \/ c[1] = 0
    THEN [c |-> RInt(0), m |-> 1, b |-> IF m = 1 THEN RAdd(b, c) ELSE b]
    ELSE [c |-> c, m |-> m, b |-> b]
NRat(r) == [c |-> RInt(0), m |-> 1, b |-> r]
NInt(i) == NRat(RInt(i))
IsRational(u) == u.m = 1

\* the root of two numbers of which one is rational or both share the root
Root(u, v) == IF u.m >= v.m THEN u.m ELSE v.m
NAdd(u, v) == Num(RAdd(u.c, v.c), Root(u, v), RAdd(u.b, v.b))
NNeg(u) == [c |-> RNeg(u.c), m |-> u.m, b |-> RNeg(u.b)]
NSub(u, v) == NAdd(u, NNeg(v))
\* (c1 r + b1)(c2 r + b2) = (c1 b2 + c2 b1) r + (c1 c2 m + b1 b2), r = sqrt(m)
NMul(u, v) ==
    Num(RAdd(RMul(u.c, v.b), RMul(v.c, u.b)), Root(u, v),
        RAdd(RMul(RMul(u.c, v.c), RInt(Root(u, v))), RMul(u.b, v.b)))
\* 1/sqrt(n/d) = sqrt(n*d)/n for a positive rational n/d
NRsqrt(u) ==
    LET n == u.b[1]
        d == u.b[2]
        s == SquarePart(n * d)
    IN  Num(Rat(s, n), (n * d) \div (s * s), RInt(0))

\* sign of A + B given their signs sa, sb and their squares l, r
SignBySquares(sa, sb, l, r) ==
    IF sa = 0 THEN sb
    ELSE IF sb = 0 \/ sa = sb THEN sa
    ELSE IF RLt(r, l) THEN sa
    ELSE IF RLt(l, r) THEN sb
    ELSE 0
\* sign of a*sqrt(m) + b*sqrt(n)
SignAB(a, m, b, n) ==
    SignBySquares(RSign(a), RSign(b), RMul(RMul(a, a), RInt(m)), RMul(RMul(b, b), RInt(n)))
\* sign of S + r given the signs sS, sr and the sign t of S^2 - r^2
SignBySum(sS, sr, t) ==
    IF sr = 0 THEN sS
    ELSE IF sS = 0 \/ sS = sr THEN sr
    ELSE IF t > 0 THEN sS
    ELSE IF t < 0 THEN sr
    ELSE 0
\* sign of a*sqrt(m) + b*sqrt(n) + r; with S = a*sqrt(m) + b*sqrt(n),
\* S^2 - r^2 = (a^2 m + b^2 n - r^2) + 2ab*sqrt(mn)
Sign3(a, m, b, n, r) ==
    SignBySum(SignAB(a, m, b, n), RSign(r),
              SignAB(RSub(RAdd(RMul(RMul(a, a), RInt(m)), RMul(RMul(b, b), RInt(n))), RMul(r, r)),
                     1, RMul(RInt(2), RMul(a, b)), m * n))
NSign(u) == Sign3(u.c, u.m, RInt(0), 1, u.b)
\* u <= v
NLe(u, v) == Sign3(v.c, v.m, RNeg(u.c), u.m, RSub(v.b, u.b)) >= 0
NAbs(u) == IF NSign(u) < 0 THEN NNeg(u) ELSE u
NMax(u, v) == IF NLe(u, v) THEN v ELSE u

\* ------------------------------------------------------------------ tensors
\* A tensor is its shape and its elements in row-major order (every tensor
\* the program builds is contiguous: clones, views of clones, fresh outputs).
RECURSIVE Prod(_)
Prod(s) == IF s = <<>> THEN 1 ELSE Head(s) * Prod(Tail(s))
\* the tuple <<f[1], ..., f[n]>> of a function on 1..n
Tup(f, n) == f \o <<>>
Tensor(shape, data) == [shape |-> shape, data |-> Tup(data, Prod(shape))]
Scalar0(v) == Tensor(<<>>, <<v>>)
Numel(t) == Len(t.data)
Item(t) == t.data[1]
LastDim(t) == t.shape[Len(t.shape)]
Col(k, n) == ((k - 1) % n) + 1
Row(k, n) == ((k - 1) \div n) + 1

\* a view with the two dimensions exchanged
view_swapped(t, n) == Tensor(<<n, Numel(t) \div n>>, t.data)

\* Tensor.view(-1, n): same storage, two-dimensional shape.
view(t, n) == Tensor(<<Numel(t) \div n, n>>, t.data)

\* torch broadcasting of the second operand of a binary elementwise op:
\* equal shapes, or b a 0-dim tensor, or b one-dimensional and aligned with
\* the last axis of a.  The element of b that meets element k of a.
Broadcast(a, b, k) ==
    IF b.shape = a.shape THEN b.data[k]
    ELSE IF b.shape = <<>> THEN Item(b)
    ELSE b.data[Col(k, LastDim(a))]
\* a product that drops its second operand
torch_mul_unscaled(a, b) == a
torch_add(a, b) == Tensor(a.shape, [k \in 1..Numel(a) |-> NAdd(a.data[k], Broadcast(a, b, k))])
torch_sub(a, b) == Tensor(a.shape, [k \in 1..Numel(a) |-> NSub(a.data[k], Broadcast(a, b, k))])
torch_mul(a, b) == Tensor(a.shape, [k \in 1..Numel(a) |-> NMul(a.data[k], Broadcast(a, b, k))])
torch_abs(a) == Tensor(a.shape, [k \in 1..Numel(a) |-> NAbs(a.data[k])])

RECURSIVE SeqSum(_)
SeqSum(s) == IF s = <<>> THEN NInt(0) ELSE NAdd(Head(s), SeqSum(Tail(s)))
\* an element no other element exceeds
SeqMax(s) == s[CHOOSE i \in 1..Len(s) : \A j \in 1..Len(s) : NLe(s[j], s[i])]
\* torch.amax over every element
torch_amax(a) == Scalar0(SeqMax(a.data))

RowOf(t, r) == Tup([c \in 1..t.shape[2] |-> t.data[(r - 1) * t.shape[2] + c]], t.shape[2])
Mean(row) == NMul(SeqSum(row), NRat(Rat(1, Len(row))))
\* sum of squared deviations from mu divided by (N - correction)
VarAbout(row, mu, correction) ==
    NMul(SeqSum(Tup([c \in 1..Len(row) |-> NMul(NSub(row[c], mu), NSub(row[c], mu))],
                    Len(row))),
         NRat(Rat(1, Len(row) - correction)))
Var(row, correction) == VarAbout(row, Mean(row), correction)

\* torch.nn.functional.layer_norm over the last axis of a 2-D input:
\* (input - mean) / sqrt(var + eps) * weight + bias, var divided by N.
layer_norm(input, weight, bias, eps) ==
    LET n == input.shape[2]
        rstd == Tup([r \in 1..input.shape[1] |->
                        NRsqrt(NAdd(Var(RowOf(input, r), 0), NRat(eps)))],
                    input.shape[1])
        mu == Tup([r \in 1..input.shape[1] |-> Mean(RowOf(input, r))],
                  input.shape[1])
    IN  Tensor(input.shape,
               [k \in 1..Numel(input) |->
                   NAdd(NMul(NMul(NSub(input.data[k], mu[Row(k, n)]),
                                  rstd[Row(k, n)]),
                             weight.data[Col(k, n)]),
                        bias.data[Col(k, n)])])

\* What an adapter leaves behind: the returned triple, the content of the
\* amax buffer it was handed, and the caller's ln_weight tensor.
Outcome(bda_out, ln_out, amax, amax_tensor, ln_weight) ==
    [ret |-> <<bda_out, ln_out, amax>>, amax_tensor |-> amax_tensor,
     ln_weight |-> ln_weight]
\* the same when the third value returned is the amax buffer itself
Returned(bda_out, ln_out, amax_tensor, ln_weight) ==
    Outcome(bda_out, ln_out, amax_tensor, amax_tensor, ln_weight)

\* ------------------------------------------------------------------- native
\* a weight left zero-centred
OnePlusIdentity(w) == w
OnePlus(w) == torch_add(w, Scalar0(NInt(1)))

\* lines 30-37: amax = torch.amax(torch.abs(out2)); amax_tensor.fill_(amax)
\* (the buffer now holds amax); out2 = out2 * scale_tensor; the buffer itself
\* is the third value returned
native_amax_scale(out1, out2, scale_tensor, amax_tensor, ln_weight) ==
    Returned(out1, torch_mul(out2, scale_tensor),
             Tensor(amax_tensor.shape, <<Item(torch_amax(torch_abs(out2)))>>), ln_weight)
\* lines 26-28
native_LayerNorm(out1, ln_weight, ln_bias, eps, zero_centered_gamma, scale_tensor, amax_tensor) ==
    native_amax_scale(out1,
                      layer_norm(out1,
                                 IF ~zero_centered_gamma THEN ln_weight
                                 ELSE OnePlus(ln_weight),
                                 ln_bias, eps),
                      scale_tensor, amax_tensor, ln_weight)
\* lines 22-24, then the rest
bias_add_ln_native(x, bias, residual, w_shape, ln_weight, ln_bias, eps, zero_centered_gamma, scale_tensor, amax_tensor) ==
    native_LayerNorm(view(torch_add(torch_add(x, bias), residual), w_shape[Len(w_shape)]),
                     ln_weight, ln_bias, eps, zero_centered_gamma, scale_tensor,
                     amax_tensor)

\* torch.compile keeps the function's semantics.
bias_add_ln_compile(x, bias, residual, w_shape, ln_weight, ln_bias, eps, zero_centered_gamma, scale_tensor, amax_tensor) ==
    bias_add_ln_native(x, bias, residual, w_shape, ln_weight, ln_bias, eps,
                       zero_centered_gamma, scale_tensor, amax_tensor)


\* ----------------------------------------------------------------------- TE
\* torch.nn.functional.dropout: with p = 0 every element is kept and the
\* rescaling 1/(1-p) is 1.  (p > 0 is never passed.)
dropout(t, p, training) ==
    IF training
    THEN Tensor(t.shape, [k \in 1..Numel(t) |->
                             NMul(t.data[k], NRat(RDiv(RInt(1), RSub(RInt(1), p))))])
    ELSE t

bias_dropout_add_fused(x, bias, residual, prob, training) ==
    torch_add(residual, dropout(torch_add(x, bias), prob, training))

\* tex.layernorm_fwd_fp8 followed by .to(output_dtype) is a kernel of the
\* external library: its output elements are the FP8 encodings of the scaled
\* layer-norm output, kept here as uninterpreted casts.
Fp8Cast(t) == Tensor(t.shape, [k \in 1..Numel(t) |-> [fp8_of |-> t.data[k]]])

\* The kernel stores the amax of its output in meta.amax_history[0][index];
\* whether it overwrites the slot or folds the new value in with max is not
\* decided by this repository: `fold` is either.
StoreAmax(amax_tensor, amax, fold) ==
    Tensor(amax_tensor.shape, <<IF fold THEN NMax(Item(amax_tensor), amax) ELSE amax>>)
layernorm_fwd_fp8(out, scale_tensor, amax_tensor, fold) ==
    [ln_out |-> Fp8Cast(torch_mul(out, scale_tensor)),
     amax_tensor |-> StoreAmax(amax_tensor, Item(torch_amax(torch_abs(out))), fold)]
_LayerNormFP8TE(inp, ln_weight, ln_bias, eps, zero_centered_gamma, scale_tensor, amax_tensor, fold) ==
    layernorm_fwd_fp8(layer_norm(inp,
                                 IF ~zero_centered_gamma THEN ln_weight
                                 ELSE OnePlus(ln_weight),
                                 ln_bias, eps),
                      scale_tensor, amax_tensor, fold)

\* lines 157-160: ln_out = _LayerNormFP8TE.apply(bda_out, ...); the third
\* value is meta.amax_history[0][FP8_TENSOR_INDEX] itself
te_LayerNorm(bda_out, ln, ln_weight) ==
    Returned(bda_out, ln.ln_out, ln.amax_tensor, ln_weight)
te_apply(bda_out, ln_weight, ln_bias, eps, zero_centered_gamma, scale_tensor, amax_tensor, fold) ==
    te_LayerNorm(bda_out,
                 _LayerNormFP8TE(bda_out, ln_weight, ln_bias, eps, zero_centered_gamma,
                                 scale_tensor, amax_tensor, fold),
                 ln_weight)
BiasAddLayerNormFP8TE(x, bias, residual, w_shape, ln_weight, ln_bias, eps, zero_centered_gamma, scale_tensor, amax_tensor, fold) ==
    te_apply(view(bias_dropout_add_fused(x, bias, residual, RInt(0), TRUE),
                  w_shape[Len(w_shape)]),
             ln_weight, ln_bias, eps, zero_centered_gamma, scale_tensor, amax_tensor,
             fold)

\* ------------------------------------------------------------------ nvFuser
\* fd.ops.broadcast_in_dim: dimension i of t becomes dimension
\* broadcast_dims[i] of the output (0-based, as in the source); dimensions of
\* size 1 and dimensions not named are expanded.  Outputs are 2-D.
broadcast_in_dim(t, shape, broadcast_dims) ==
    LET src(r, c) ==
            LET out == <<r, c>>
                idx == [i \in 1..Len(t.shape) |->
                           IF t.shape[i] = 1 THEN 1
                           ELSE out[broadcast_dims[i] + 1]]
            IN  IF Len(t.shape) = 1 THEN idx[1]
                ELSE (idx[1] - 1) * t.shape[2] + idx[2]
    IN  Tensor(shape,
               [k \in 1..(shape[1] * shape[2]) |->
                   t.data[src(Row(k, shape[2]), Col(k, shape[2]))]])

\* fd.ops.add / sub / mul: elementwise; a 0-dim operand is a scalar.
ops_add(a, b) == Tensor(a.shape, [k \in 1..Numel(a) |-> NAdd(a.data[k], Broadcast(a, b, k))])
ops_sub(a, b) == Tensor(a.shape, [k \in 1..Numel(a) |-> NSub(a.data[k], Broadcast(a, b, k))])
ops_mul(a, b) == Tensor(a.shape, [k \in 1..Numel(a) |-> NMul(a.data[k], Broadcast(a, b, k))])
ops_rsqrt(a) == Tensor(a.shape, [k \in 1..Numel(a) |-> NRsqrt(a.data[k])])
ops_abs(a) == Tensor(a.shape, [k \in 1..Numel(a) |-> NAbs(a.data[k])])
\* fd.ops.max with no axes: the maximum over every element
ops_max(a) == Scalar0(SeqMax(a.data))
\* var_mean with Bessel's correction on top of the one asked for
ops_var_mean_unbiased(t, correction) ==
    <<Tensor(<<t.shape[1]>>, [r \in 1..t.shape[1] |-> Var(RowOf(t, r), correction + 1)]),
      Tensor(<<t.shape[1]>>, [r \in 1..t.shape[1] |-> Mean(RowOf(t, r))])>>
\* fd.ops.var_mean(T, [1], correction, keepdim=False): <<variance, mean>>
ops_var_mean(t, correction) ==
    <<Tensor(<<t.shape[1]>>, [r \in 1..t.shape[1] |-> Var(RowOf(t, r), correction)]),
      Tensor(<<t.shape[1]>>, [r \in 1..t.shape[1] |-> Mean(RowOf(t, r))])>>

\* _BiasAddLayerNormFuser.forward: the fusion definition, op by op, with the
\* names of the source, in the sections of the source.  fd.execute returns
\* the three outputs as fresh tensors; the amax_tensor input is only read.
\* "# Amax", "# Scale" and the outputs (lines 232-248)
fd_Amax_Scale(T1, T28, scale_tensor, amax_tensor, ln_weight) ==
    LET T29 == ops_abs(T28)
        T30 == ops_max(T29)
        T31 == ops_mul(T28, scale_tensor)
    IN  Outcome(T1, T31, T30, amax_tensor, ln_weight)
\* "# LayerNorm" after var_mean (lines 214-230)
fd_Normalize(T1, T2_T3, V17, ln_weight_f, ln_bias, eps, scale_tensor, amax_tensor, ln_weight) ==
    LET T2 == T2_T3[1]
        T3 == T2_T3[2]
        V6 == <<T1.shape[1], 1>>
        T7 == broadcast_in_dim(T2, V6, <<0>>)
        T11 == broadcast_in_dim(T3, V6, <<0>>)
        S12 == Scalar0(NRat(eps))
        T13 == ops_add(T7, S12)
        T14 == ops_rsqrt(T13)
        T18 == broadcast_in_dim(T11, V17, <<0, 1>>)
        T19 == ops_sub(T1, T18)
        T23 == broadcast_in_dim(T14, V17, <<0, 1>>)
        T24 == ops_mul(T19, T23)
        T25 == broadcast_in_dim(ln_weight_f, V17, <<1>>)
        T26 == ops_mul(T24, T25)
        T27 == broadcast_in_dim(ln_bias, V17, <<1>>)
        T28 == ops_add(T26, T27)
    IN  fd_Amax_Scale(T1, T28, scale_tensor, amax_tensor, ln_weight)
\* T2, T3 = fd.ops.var_mean(T1, [1], correction=0, keepdim=False) (line 212)
fd_LayerNorm(T1, V17, ln_weight_f, ln_bias, eps, scale_tensor, amax_tensor, ln_weight) ==
    fd_Normalize(T1, ops_var_mean(T1, 0), V17, ln_weight_f, ln_bias, eps,
                 scale_tensor, amax_tensor, ln_weight)
\* the inputs, "# Add 1 to LayerNorm weights if needed" and "# Bias-Add"
\* (lines 191-209)
_BiasAddLayerNormFuser(x, bias, residual, w_shape, ln_weight, ln_bias, eps, zero_centered_gamma, scale_tensor, amax_tensor) ==
    LET G0 == Scalar0(NInt(1))
        ln_weight_f == IF zero_centered_gamma THEN ops_add(ln_weight, G0)
                       ELSE ln_weight
        V17 == x.shape
        B0 == broadcast_in_dim(bias, V17, <<1>>)
        T0 == ops_add(x, B0)
        T1 == ops_add(T0, residual)
    IN  fd_LayerNorm(T1, V17, ln_weight_f, ln_bias, eps, scale_tensor,
                     amax_tensor, ln_weight)

\* BiasAddLayerNormFuser.forward
BiasAddLayerNormFuser(x, bias, residual, w_shape, ln_weight, ln_bias, eps, zero_centered_gamma, scale_tensor, amax_tensor) ==
    _BiasAddLayerNormFuser(view(x, w_shape[Len(w_shape)]), bias,
                           view(residual, w_shape[Len(w_shape)]), w_shape,
                           ln_weight, ln_bias, eps, zero_centered_gamma,
                           scale_tensor, amax_tensor)

\* ------------------------------------------------------------------- common
NoErr == [type |-> "none", msg |-> <<>>]
\* an error that does not name the selector
ValueErrorUnnamed(impl) ==
    [type |-> "ValueError", msg |-> <<"Implementation is not recognized.">>]
ValueError(impl) ==
    [type |-> "ValueError", msg |-> <<"Implementation '", impl, "' is not recognized.">>]

\* tex.FP8TensorMeta with the three fields the program sets: scale and
\* scale_inv of shape (1), amax_history of shape (1, 1).
Scale(meta) == Scalar0(meta.scale.data[FP8_TENSOR_INDEX + 1])
Slot(meta) == Scalar0(meta.amax_history.data[0 * meta.amax_history.shape[2] + FP8_TENSOR_INDEX + 1])
WithSlot(meta, amax_tensor) ==
    [meta EXCEPT !.amax_history.data[0 * meta.amax_history.shape[2] + FP8_TENSOR_INDEX + 1] =
                     Item(amax_tensor)]

\* bias_add_ln: the branch taken, what it returns or raises, and the meta
\* object afterwards (the adapters write through the views they are handed).
bias_add_ln(a, impl, meta, fold) ==
    LET done(adapter, o) ==
            [raised |-> NoErr, adapter |-> adapter, result |-> o.ret,
             meta |-> WithSlot(meta, o.amax_tensor), ln_weight |-> o.ln_weight]
    IN  IF impl = "native" THEN
            done("native",
                 bias_add_ln_native(a.x, a.bias, a.residual, a.w_shape,
                                    a.ln_weight, a.ln_bias, a.eps,
                                    a.zero_centered_gamma, Scale(meta), Slot(meta)))
        ELSE IF impl = "compile" THEN
            done("compile",
                 bias_add_ln_compile(a.x, a.bias, a.residual, a.w_shape,
                                     a.ln_weight, a.ln_bias, a.eps,
                                     a.zero_centered_gamma, Scale(meta), Slot(meta)))
        ELSE IF impl = "te" THEN
            done("te",
                 BiasAddLayerNormFP8TE(a.x, a.bias, a.residual, a.w_shape,
                                       a.ln_weight, a.ln_bias, a.eps,
                                       a.zero_centered_gamma, Scale(meta), Slot(meta),
                                       fold))
        ELSE IF impl = "nvfuser" THEN
            done("nvfuser",
                 BiasAddLayerNormFuser(a.x, a.bias, a.residual, a.w_shape,
                                       a.ln_weight, a.ln_bias, a.eps,
                                       a.zero_centered_gamma, Scale(meta), Slot(meta)))
        ELSE [raised |-> ValueError(impl), adapter |-> "none", result |-> <<>>,
              meta |-> meta, ln_weight |-> a.ln_weight]

\* ------------------------------------------------------------------- inputs
all_impls == <<"native", "compile", "te", "nvfuser">>
ValidImpls == {all_impls[i] : i \in 1..Len(all_impls)}
\* selectors a caller may pass: the four names and two that are none of them
Selectors == ValidImpls \cup {"triton", "Native"}

IntTensor(shape, f) == Tensor(shape, [k \in 1..Prod(shape) |-> NInt(f[k])])
Zeros(shape) == IntTensor(shape, [k \in 1..Prod(shape) |-> 0])
\* leading dimensions x.shape[:-1]: a 3-D input like main's (512, 1, 12288)
\* and a 2-D input of one row
Leads == {<<MaxRows, 1>>, <<1>>}
XSet(shape) ==
    {IntTensor(shape, [k \in 1..Prod(shape) |-> k - 1 - MaxVal]),
     IntTensor(shape, [k \in 1..Prod(shape) |-> 1 - k])}
ResidualSet(shape) ==
    {Zeros(shape),
     IntTensor(shape, [k \in 1..Prod(shape) |-> IF k = Prod(shape) THEN MaxVal + 1 ELSE 0])}
BiasSet == {Zeros(<<Cols>>), IntTensor(<<Cols>>, [c \in 1..Cols |-> c - 1])}
WeightSet == {Zeros(<<Cols>>), IntTensor(<<Cols>>, [c \in 1..Cols |-> c - 1 - MaxVal])}
LnBiasSet == {Zeros(<<Cols>>),
              IntTensor(<<Cols>>, [c \in 1..Cols |-> IF c = 1 THEN -MaxVal ELSE 1])}
EpsSet == {Rat(1, 4), Rat(1, 1)}
Scales == {Rat(1, 2), Rat(1, 1)}

Args(x, bias, residual, ln_weight, ln_bias, eps, zcg) ==
    [x |-> x, bias |-> bias, residual |-> residual, w_shape |-> <<Cols>>,
     ln_weight |-> ln_weight, ln_bias |-> ln_bias, eps |-> eps,
     zero_centered_gamma |-> zcg]
ArgsOver(leads, biases, weights, ln_biases, epss, zcgs) ==
    UNION {{Args(x, b, r, w, lb, e, z) :
               x \in XSet(l \o <<Cols>>), r \in ResidualSet(l \o <<Cols>>),
               b \in biases, w \in weights, lb \in ln_biases, e \in epss,
               z \in zcgs} : l \in leads}
\* the inputs of single calls
BigArgs == ArgsOver(Leads, BiasSet, WeightSet, LnBiasSet, EpsSet, BOOLEAN)
\* the inputs of calls that follow another call on the same meta object
SmallArgs ==
    ArgsOver({<<MaxRows, 1>>}, {Zeros(<<Cols>>)},
             {IntTensor(<<Cols>>, [c \in 1..Cols |-> c - 1 - MaxVal])},
             {Zeros(<<Cols>>)}, {Rat(1, 4)}, BOOLEAN)

\* meta = tex.FP8TensorMeta(); meta.scale = ones(1) * s;
\* meta.scale_inv = ones(1) / s; meta.amax_history = zeros(1, 1)
FP8TensorMeta(s) ==
    [scale |-> Tensor(<<1>>, <<NMul(NInt(1), NRat(s))>>),
     scale_inv |-> Tensor(<<1>>, <<NRat(RDiv(RInt(1), s))>>),
     amax_history |-> Tensor(<<1, 1>>, <<NInt(0)>>)]

\* -------------------------------------------------------------------- state
VARIABLES
    pc,            \* where the caller / the driver is
    args,          \* the positional arguments of bias_add_ln
    impl,          \* kwargs["impl"]
    meta,          \* kwargs["meta"]
    result,        \* what the last call returned (<<>>: nothing)
    err,           \* the exception that ended the last call or the run
    adapter,       \* the adapter the last call ran ("none": none)
    do_bprop,      \* main's settings: do_bprop, compare, the list the
    compare,       \*   implementation loop runs over
    run_impls,
    n,             \* position of the implementation loop in run_impls
    it,            \* the iteration counter i of the running loop
    grad,          \* .grad of the five tensors handed to bias_add_ln: the
                   \*   iterations whose backward pass added to it ({}: None)
    fprop_result,
    bprop_result,
    ci, cj,        \* the comparison loops' indices i, j
    compared       \* the comparisons printed so far
call_vars == <<args, impl, meta, result, err, adapter>>
main_vars == <<do_bprop, compare, run_impls, n, it, grad, fprop_result,
               bprop_result, ci, cj, compared>>
vars == <<pc, call_vars, main_vars>>

Leaves == {"x", "bias", "residual", "ln_weight", "ln_bias"}
NoGrad == [l \in Leaves |-> {}]

\* ---------------------------------------------- calls sharing a meta object
Fresh ==
    /\ pc = "ready"
    /\ impl \in Selectors
    /\ \E s \in Scales : meta = FP8TensorMeta(s)
    /\ result = <<>>
    /\ err = NoErr
    /\ adapter = "none"
    /\ do_bprop = FALSE
    /\ compare = FALSE
    /\ run_impls = <<>>
    /\ n = 0
    /\ it = 0
    /\ grad = NoGrad
    /\ fprop_result = <<>>
    /\ bprop_result = <<>>
    /\ ci = 0
    /\ cj = 0
    /\ compared = <<>>

Init == Fresh /\ args \in SmallArgs

\* result = bias_add_ln(*args, impl=impl, meta=meta, do_bprop=do_bprop)
Call ==
    /\ pc = "ready"
    /\ \E fold \in IF impl = "te" THEN BOOLEAN ELSE {FALSE} :
        \E r \in {bias_add_ln(args, impl, meta, fold)} :
            /\ result' = r.result
            /\ err' = r.raised
            /\ adapter' = r.adapter
            /\ meta' = r.meta
            /\ args' = [args EXCEPT !.ln_weight = r.ln_weight]
    /\ pc' = "done"
    /\ UNCHANGED <<impl, main_vars>>

\* The caller prepares the next call on the same meta object: new tensors
\* and a selector.
NextCall ==
    /\ pc = "done"
    /\ args' \in SmallArgs
    /\ impl' \in Selectors
    /\ result' = <<>>
    /\ err' = NoErr
    /\ adapter' = "none"
    /\ pc' = "ready"
    /\ UNCHANGED <<meta, main_vars>>

Next == Call \/ NextCall
Spec == Init /\ [][Next]_vars

\* ------------------------------------------------------------- single calls
InitOp == Fresh /\ args \in BigArgs
NextOp == Call
SpecOp == InitOp /\ [][NextOp]_vars

\* --------------------------------------------------------------------- main
fp8_scale == Rat(1, 2)
warmup_iters == MaxWarmup
main_iters == MaxMain
\* the lists the implementation loop is run over: the one of line 336, the
\* one of line 335, and two in between
RunLists == {<<"nvfuser">>, all_impls, <<"native", "nvfuser">>, <<"compile", "te">>}
\* x of shape (rows, 1, N), zero_centered_gamma = True
MainArgs ==
    ArgsOver({<<MaxRows, 1>>}, {IntTensor(<<Cols>>, [c \in 1..Cols |-> c - 1])},
             {IntTensor(<<Cols>>, [c \in 1..Cols |-> c - 1 - MaxVal])},
             {Zeros(<<Cols>>)}, {Rat(1, 4)}, {TRUE})

TypeError(what) == [type |-> "TypeError", msg |-> <<what>>]
KeyError(key) == [type |-> "KeyError", msg |-> <<key>>]

\* a backward pass whose empty body completes for the nvfuser adapter
backward_silent(adapter_, grad_, tag) ==
    IF adapter_ = "nvfuser"
    THEN [raised |-> NoErr, grad |-> grad_]
    ELSE [raised |-> NoErr, grad |-> [l \in {"x", "bias", "residual", "ln_weight", "ln_bias"} |->
                                         grad_[l] \cup {tag}]]

\* y = result[1].mean(); y.backward(): every leaf the loss depends on gets
\* this iteration's gradient added to its .grad.  Through the nvfuser
\* adapter the engine reaches _BiasAddLayerNormFuser.backward, handing it one
\* gradient per forward output (three, line 248); backward takes one
\* (lines 251-254), so the call raises before its body (pass) runs.
backward(adapter_, grad_, tag) ==
    IF adapter_ = "nvfuser"
    THEN [raised |-> TypeError("backward() takes 2 positional arguments but 4 were given"),
          grad |-> grad_]
    ELSE [raised |-> NoErr, grad |-> [l \in Leaves |-> grad_[l] \cup {tag}]]

InitMain ==
    /\ pc = "for_impl"
    /\ args \in MainArgs
    /\ impl = "none"
    /\ meta = FP8TensorMeta(fp8_scale)
    /\ result = <<>>
    /\ err = NoErr
    /\ adapter = "none"
    /\ do_bprop \in BOOLEAN
    /\ compare \in BOOLEAN
    /\ run_impls \in RunLists
    /\ n = 1
    /\ it = 0
    /\ grad = NoGrad
    /\ fprop_result = <<>>
    /\ bprop_result = <<>>
    /\ ci = 0
    /\ cj = 1
    /\ compared = <<>>

\* for impl in [...]: the per-implementation clones (lines 336-349)
ForImpl ==
    /\ pc = "for_impl"
    /\ IF n <= Len(run_impls)
       THEN /\ impl' = run_impls[n]
            /\ grad' = NoGrad
            /\ it' = 0
            /\ pc' = "warmup"
       ELSE /\ pc' = IF compare THEN "compare" ELSE "exit"
            /\ UNCHANGED <<impl, grad, it>>
    /\ UNCHANGED <<args, meta, result, err, adapter, do_bprop, compare,
                   run_impls, n, fprop_result, bprop_result, ci, cj, compared>>

\* an iteration head that keeps the meta object of the iteration before
SetupStaleMeta(phase, iters, after) ==
    /\ pc = phase
    /\ IF it < iters
       THEN /\ grad' = [grad EXCEPT !["x"] = {}, !["bias"] = {}, !["residual"] = {}]
            /\ pc' = phase \o "_call"
            /\ it' = it
       ELSE /\ pc' = after
            /\ it' = 0
            /\ UNCHANGED grad
    /\ UNCHANGED <<args, impl, meta, result, err, adapter, do_bprop, compare,
                   run_impls, n, fprop_result, bprop_result, ci, cj, compared>>

\* the head of an iteration: fresh clones of x, bias, residual and a fresh
\* meta (lines 351-360 and 380-391)
Setup(phase, iters, after) ==
    /\ pc = phase
    /\ IF it < iters
       THEN /\ grad' = [grad EXCEPT !["x"] = {}, !["bias"] = {}, !["residual"] = {}]
            /\ meta' = FP8TensorMeta(fp8_scale)
            /\ pc' = phase \o "_call"
            /\ it' = it
       ELSE /\ pc' = after
            /\ it' = 0
            /\ UNCHANGED <<grad, meta>>
    /\ UNCHANGED <<args, impl, result, err, adapter, do_bprop, compare,
                   run_impls, n, fprop_result, bprop_result, ci, cj, compared>>

\* result = bias_add_ln(..., **kwargs) (lines 362-372 and 396-406)
Forward(phase) ==
    /\ pc = phase \o "_call"
    /\ \E fold \in IF impl = "te" THEN BOOLEAN ELSE {FALSE} :
        \E r \in {bias_add_ln(args, impl, meta, fold)} :
            /\ err' = r.raised
            /\ adapter' = r.adapter
            /\ meta' = r.meta
            /\ args' = [args EXCEPT !.ln_weight = r.ln_weight]
            /\ IF r.raised = NoErr
               THEN result' = r.result /\ pc' = phase \o "_bprop"
               ELSE result' = result /\ pc' = "raised"
    /\ UNCHANGED <<impl, main_vars>>

\* if do_bprop: y = result[1].mean(); y.backward() (lines 374-376 and
\* 410-420), then the next iteration
Backward(phase) ==
    /\ pc = phase \o "_bprop"
    /\ IF do_bprop
       THEN LET b == backward(adapter, grad, <<phase, it>>)
            IN  /\ grad' = b.grad
                /\ err' = b.raised
                /\ IF b.raised = NoErr
                   THEN pc' = phase /\ it' = it + 1
                   ELSE pc' = "raised" /\ it' = it
       ELSE /\ pc' = phase
            /\ it' = it + 1
            /\ UNCHANGED <<grad, err>>
    /\ UNCHANGED <<args, impl, meta, result, adapter, do_bprop, compare,
                   run_impls, n, fprop_result, bprop_result, ci, cj, compared>>

WarmupSetup == Setup("warmup", warmup_iters, "main")
WarmupForward == Forward("warmup")
WarmupBackward == Backward("warmup")
MainSetup == Setup("main", main_iters, "record")
MainForward == Forward("main")
MainBackward == Backward("main")

\* fprop_result[impl] = result; bprop_result[impl] = {...} (lines 423-430)
Record ==
    /\ pc = "record"
    /\ fprop_result' = (impl :> result) @@ fprop_result
    /\ bprop_result' =
           (impl :> [k \in {"x.wgrad", "bias.wgrad", "residual.wgrad",
                            "ln_weight.wgrad", "ln_bias.wgrad"} |->
                        CASE k = "x.wgrad" -> grad["x"]
                          [] k = "bias.wgrad" -> grad["bias"]
                          [] k = "residual.wgrad" -> grad["residual"]
                          [] k = "ln_weight.wgrad" -> grad["ln_weight"]
                          [] k = "ln_bias.wgrad" -> grad["ln_bias"]])
           @@ bprop_result
    /\ n' = n + 1
    /\ pc' = "for_impl"
    /\ UNCHANGED <<call_vars, do_bprop, compare, run_impls, it, grad, ci, cj,
                   compared>>

\* torch.amax(torch.abs(a - b)); the FP8 encodings of the TE adapter are
\* not interpreted, and neither is a difference with one of them
IsExact(t) == \A k \in 1..Numel(t) : "fp8_of" \notin DOMAIN t.data[k]
MaxAbsDiff(a, b) ==
    IF IsExact(a) /\ IsExact(b)
    THEN Item(torch_amax(torch_abs(torch_sub(a, b))))
    ELSE [amax_abs_of |-> <<a, b>>]

\* the loop indices after (i, j): j runs over i+1..len-1, i over 0..len-1
NextPair(i, j) ==
    IF j + 1 < Len(all_impls) THEN <<i, j + 1>>
    ELSE IF i + 2 < Len(all_impls) THEN <<i + 1, i + 2>>
    ELSE <<Len(all_impls), Len(all_impls)>>

\* one pass of the inner loop of "Comparing fprop" (lines 434-445).  The
\* "Comparing bprop" loops (lines 447-464) follow a completed fprop
\* comparison with do_bprop set; that takes a backward pass through every
\* implementation of all_impls, which no run completes (see backward), so
\* pc = "compare_bprop" only marks the point.
Compare ==
    /\ pc = "compare"
    /\ IF ci < Len(all_impls) /\ cj < Len(all_impls)
       THEN LET impl_cur == all_impls[ci + 1]
                impl_ref == all_impls[cj + 1]
            IN  IF impl_cur \notin DOMAIN fprop_result
                THEN err' = KeyError(impl_cur) /\ pc' = "raised"
                     /\ UNCHANGED <<ci, cj, compared>>
                ELSE IF impl_ref \notin DOMAIN fprop_result
                THEN err' = KeyError(impl_ref) /\ pc' = "raised"
                     /\ UNCHANGED <<ci, cj, compared>>
                ELSE /\ compared' = Append(compared,
                            [cur |-> impl_cur, ref |-> impl_ref,
                             bda_out_diff |-> MaxAbsDiff(fprop_result[impl_cur][1],
                                                         fprop_result[impl_ref][1]),
                             ln_out_diff |-> MaxAbsDiff(fprop_result[impl_cur][2],
                                                        fprop_result[impl_ref][2]),
                             amax_diff |-> NAbs(NSub(Item(fprop_result[impl_cur][3]),
                                                     Item(fprop_result[impl_ref][3])))])
                     /\ ci' = NextPair(ci, cj)[1]
                     /\ cj' = NextPair(ci, cj)[2]
                     /\ UNCHANGED <<err, pc>>
       ELSE /\ pc' = IF do_bprop THEN "compare_bprop" ELSE "exit"
            /\ ci' = 0
            /\ cj' = 1
            /\ UNCHANGED <<err, compared>>
    /\ UNCHANGED <<args, impl, meta, result, adapter, do_bprop, compare,
                   run_impls, n, it, grad, fprop_result, bprop_result>>

NextMain ==
    \/ ForImpl
    \/ WarmupSetup \/ WarmupForward \/ WarmupBackward
    \/ MainSetup \/ MainForward \/ MainBackward
    \/ Record
    \/ Compare
SpecMain == InitMain /\ [][NextMain]_vars

\* --------------------------------------------------------------- properties
\* C1: after a call through any of the four implementations returns, the
\* slot meta.amax_history[0][FP8_TENSOR_INDEX] holds max |unscaled layer-norm
\* output| of that call alone, whatever it held before, and the third
\* returned value equals the slot's content.
C1_SlotHoldsCallAmax ==
    (pc = "done" /\ impl \in ValidImpls) =>
        LET pre == [k \in 1..Numel(args.x) |->
                       NAdd(NAdd(args.x.data[k], args.bias.data[Col(k, Cols)]),
                            args.residual.data[k])]
            w == [c \in 1..Cols |->
                     IF args.zero_centered_gamma
                     THEN NAdd(NInt(1), args.ln_weight.data[c])
                     ELSE args.ln_weight.data[c]]
            unscaled == layer_norm(Tensor(<<Numel(args.x) \div Cols, Cols>>, pre),
                                   Tensor(<<Cols>>, w), args.ln_bias, args.eps)
            amax == SeqMax([k \in 1..Numel(unscaled) |-> NAbs(unscaled.data[k])])
        IN  /\ Item(Slot(meta)) = amax
            /\ Item(result[3]) = Item(Slot(meta))

\* C2: on identical inputs the nvfuser operation graph returns the same
\* three outputs (bda_out, ln_out, amax) as bias_add_ln_native, both
\* evaluated in exact arithmetic.
C2_FuserEqualsNative ==
    (pc = "done" /\ impl = "nvfuser") =>
        result = bias_add_ln_native(args.x, args.bias, args.residual,
                                    args.w_shape, args.ln_weight, args.ln_bias,
                                    args.eps, args.zero_centered_gamma,
                                    Scale(meta), Slot(meta)).ret
\* a 3-D input through the graph with an amax that needs a square root
C2_Witness ==
    /\ pc = "done" /\ impl = "nvfuser"
    /\ Len(args.x.shape) = 3
    /\ args.zero_centered_gamma
    /\ Item(result[3]).m # 1

\* C3: a call with a selector that is none of native, compile, te, nvfuser
\* ends in an error whose message names the selector; no adapter runs, nothing
\* is returned and meta (scale and amax_history) is as it was.
C3_InvalidSelectorRejected ==
    [][(pc = "ready" /\ impl \notin ValidImpls) =>
          /\ err'.type = "ValueError"
          /\ \E k \in 1..Len(err'.msg) : err'.msg[k] = impl
          /\ adapter' = "none"
          /\ result' = <<>>
          /\ meta' = meta]_vars
\* the rejected call came after a call that had written the slot
C3_Witness ==
    /\ pc = "done" /\ impl = "triton"
    /\ err.type = "ValueError"
    /\ Item(Slot(meta)) # NInt(0)

\* C4: with comparison enabled, exactly the unordered pairs of the
\* implementations that ran (the keys of fprop_result) are compared, each
\* once, and no result of an implementation that did not run is read.
C4_ComparesEnabledPairsOnly ==
    /\ ~(pc = "raised" /\ err.type = "KeyError")
    /\ (pc = "exit" /\ compare) =>
          LET ran == {<<all_impls[i], all_impls[j]>> :
                         i \in {p \in 1..Len(all_impls) : all_impls[p] \in DOMAIN fprop_result},
                         j \in {q \in 1..Len(all_impls) : all_impls[q] \in DOMAIN fprop_result}}
              pairs == {pr \in ran :
                           \E i, j \in 1..Len(all_impls) :
                               i < j /\ pr = <<all_impls[i], all_impls[j]>>}
          IN  /\ {<<compared[k].cur, compared[k].ref>> : k \in 1..Len(compared)} = pairs
              /\ Len(compared) = Cardinality(pairs)

\* C5: for native and nvfuser, whatever the scale, bda_out and amax are the
\* same, and ln_out is the scale-1 output times the scale, element by element.
C5_ScaleOnlyScalesLnOut ==
    (pc = "done" /\ impl \in {"native", "nvfuser"}) =>
        \A s \in Scales :
            LET at_s == bias_add_ln(args, impl, FP8TensorMeta(s), FALSE).result
                at_1 == bias_add_ln(args, impl, FP8TensorMeta(Rat(1, 1)), FALSE).result
            IN  /\ at_s[1] = result[1]
                /\ at_s[3] = result[3]
                /\ at_s[2] = Tensor(at_1[2].shape,
                                    [k \in 1..Numel(at_1[2]) |->
                                        NMul(at_1[2].data[k], NRat(s))])
\* a call at scale 1/2 with a layer-norm output that is not all zero
C5_Witness ==
    /\ pc = "done" /\ impl \in {"native", "nvfuser"}
    /\ Item(Scale(meta)) = NRat(Rat(1, 2))
    /\ \E k \in 1..Numel(result[2]) : result[2].data[k] # NInt(0)

\* C6: for native and nvfuser, a call with zero_centered_gamma and weight w
\* returns what a call without it and weight 1 + w returns, and leaves the
\* caller's ln_weight as it was.
C6_ZeroCentredGamma ==
    [][(pc = "ready" /\ impl \in {"native", "nvfuser"}) =>
          /\ args'.ln_weight = args.ln_weight
          /\ args.zero_centered_gamma =>
                result' =
                    bias_add_ln(
                        [args EXCEPT
                            !.zero_centered_gamma = FALSE,
                            !.ln_weight =
                                Tensor(args.ln_weight.shape,
                                       [c \in 1..Numel(args.ln_weight) |->
                                           NAdd(NInt(1), args.ln_weight.data[c])])],
                        impl, meta, FALSE).result]_vars
\* a zero-centred call with a weight and an output that are not all zero
C6_Witness ==
    /\ pc = "done" /\ impl \in {"native", "nvfuser"}
    /\ args.zero_centered_gamma
    /\ \E c \in 1..Cols : args.ln_weight.data[c] # NInt(0)
    /\ \E k \in 1..Numel(result[2]) : result[2].data[k] # NInt(0)

\* C7: for native, te and nvfuser, bda_out has shape (rows, w_shape[-1]) with
\* rows the product of x.shape[:-1], and its element (r, c) is
\* x + bias[c] + residual at the matching position of x.
C7_BdaOutShapeAndValue ==
    (pc = "done" /\ impl \in {"native", "te", "nvfuser"}) =>
        LET N == args.w_shape[Len(args.w_shape)]
            rows == Prod(SubSeq(args.x.shape, 1, Len(args.x.shape) - 1))
        IN  /\ result[1].shape = <<rows, N>>
            /\ \A r \in 1..rows, c \in 1..N :
                   result[1].data[(r - 1) * N + c] =
                       NAdd(NAdd(args.x.data[(r - 1) * N + c], args.bias.data[c]),
                            args.residual.data[(r - 1) * N + c])
\* a 3-D x with a bias and a residual that are not all zero
C7_Witness ==
    /\ pc = "done" /\ impl \in {"native", "te", "nvfuser"}
    /\ Len(args.x.shape) = 3
    /\ \E c \in 1..Cols : args.bias.data[c] # NInt(0)
    /\ \E k \in 1..Numel(args.residual) : args.residual.data[k] # NInt(0)

\* C8: at every call of bias_add_ln in main, warm-up or main iteration,
\* meta.scale is fp8_scale and meta.amax_history is all zero.
C8_FreshMetaAtEachCall ==
    pc \in {"warmup_call", "main_call"} =>
        /\ \A k \in 1..Numel(meta.scale) : meta.scale.data[k] = NRat(fp8_scale)
        /\ \A k \in 1..Numel(meta.amax_history) :
               meta.amax_history.data[k] = NInt(0)
\* a later main iteration of a later implementation, after a recorded call
\* that had written an amax
C8_Witness ==
    /\ pc = "main_call" /\ it >= 1 /\ n >= 2
    /\ \E i \in DOMAIN fprop_result : Item(fprop_result[i][3]) # NInt(0)

\* C9: with the backward pass enabled, no tensor handed to bias_add_ln
\* carries a gradient of an earlier iteration, and every gradient recorded
\* in bprop_result is that of the last main iteration alone.
C9_NoCarriedGradient ==
    do_bprop =>
        /\ pc \in {"warmup_call", "main_call"} => \A l \in Leaves : grad[l] = {}
        /\ \A i \in DOMAIN bprop_result : \A k \in DOMAIN bprop_result[i] :
               bprop_result[i][k] \subseteq {<<"main", main_iters - 1>>}

\* C10: with the backward pass enabled, the backward pass through the
\* nvfuser adapter never completes: the run ends in an error at the first
\* warm-up iteration, no gradient is stored and none is recorded for nvfuser.
C10_NoGradientsThroughFuser ==
    do_bprop =>
        /\ "nvfuser" \notin DOMAIN bprop_result
        /\ impl = "nvfuser" =>
              /\ grad = NoGrad
              /\ it = 0
              /\ pc \in {"warmup", "warmup_call", "warmup_bprop", "raised"}
              /\ pc = "raised" => err.type = "TypeError"
\* the run ended in the nvfuser backward pass after another implementation
\* had its gradients recorded
C10_Witness ==
    /\ pc = "raised" /\ impl = "nvfuser" /\ do_bprop
    /\ err.type = "TypeError"
    /\ "native" \in DOMAIN bprop_result
====
